---- MODULE Spec2Model ----
(***************************************************************************)
(* Model of the NetFlow v1/v5/v9/IPFIX collector of                        *)
(* python-netflow-v9-softflowd: the receive handler, the processing loop   *)
(* of ThreadedNetFlowListener (template stores, pending list, outputs)     *)
(* and the decoders it dispatches to (netflow/utils.py, v9.py, ipfix.py,   *)
(* v1.py, v5.py).                                                          *)
(*                                                                         *)
(* A datagram is modelled by the structure its octets encode:              *)
(*   enc     "bin"  the octets are not valid UTF-8,                        *)
(*           "text" the octets are valid UTF-8 but not hexadecimal text,   *)
(*           "hex"  the octets are UTF-8 hexadecimal text; version, sets   *)
(*                  and tail then describe bytes.fromhex of that text;     *)
(*   version the 16 bit version field;                                     *)
(*   count   the count field of a v1/v5 header, body the octets after it;  *)
(*   sets    the flowsets (v9) or sets (IPFIX) in wire order;              *)
(*   tail    octets that follow the last set (fewer than a set header);    *)
(*   total   the length field of an IPFIX message header.                  *)
(* A set is [id, length, tmpls]: tmpls are the template records of a       *)
(* template set, length is the declared length of a data set.              *)
(***************************************************************************)
EXTENDS Integers, Sequences, FiniteSets, TLC

(***************************************************************************)
(* Python dicts, kept in insertion order: a sequence of [k, v] entries.    *)
(***************************************************************************)
DictKeys(d) == {d[i].k : i \in 1..Len(d)}

DictHas(d, key) == key \in DictKeys(d)

DictGet(d, key) == (CHOOSE i \in 1..Len(d) : d[i].k = key)

DictVal(d, key) == d[DictGet(d, key)].v

DictPut(d, key, val) ==
    IF DictHas(d, key)
    THEN [i \in 1..Len(d) |-> IF d[i].k = key THEN [k |-> key, v |-> val] ELSE d[i]]
    ELSE Append(d, [k |-> key, v |-> val])

DictDel(d, key) == SelectSeq(d, LAMBDA e : e.k # key)

(* dict.update(other): every entry of other is put, in the order of other *)
RECURSIVE DictUpdate(_, _)
DictUpdate(d, other) ==
    IF other = <<>> THEN d
    ELSE DictUpdate(DictPut(d, Head(other).k, Head(other).v), Tail(other))

RECURSIVE SumLen(_)
SumLen(fields) ==
    IF fields = <<>> THEN 0 ELSE Head(fields)[2] + SumLen(Tail(fields))

(* the value None of Python, where a template is expected *)
None == [kind |-> "None", fields |-> <<>>, src |-> 0]


(***************************************************************************)
(* Program constants.                                                      *)
(***************************************************************************)
PACKET_TIMEOUT == 3600

V9HeaderLength == 20

IPFIXHeaderSize == 16

IPFIXSetHeaderSize == 4

V5HeaderLength == 24

V1HeaderLength == 16

FlowLength == 48

(***************************************************************************)
(* The outcome of one decoding.  status is "ok" or the kind of exception:  *)
(* "UnknownExportVersion", "TemplateNotRecognized", or "error" for every   *)
(* other exception (err names its class).  templates is the store after    *)
(* the call: the decoders update the dict they are given in place, also    *)
(* when they end with an exception.                                        *)
(***************************************************************************)
Outcome(status, err, templates, version, new, flows) ==
    [status |-> status, err |-> err, templates |-> templates,
     version |-> version, new |-> new, flows |-> flows]

RECURSIVE Repeat(_, _)
Repeat(x, n) == IF n <= 0 THEN <<>> ELSE <<x>> \o Repeat(x, n - 1)

(***************************************************************************)
(* v9.py, V9DataFlowSet.__init__: the records of a data flowset of         *)
(* declared length L decoded with a template of record width w, when avail *)
(* octets are left in the datagram from the start of the flowset.          *)
(* Returns the number of records, -1 for struct.error (a record is read    *)
(* past the end of the datagram), -2 when the loop never advances (w = 0). *)
(***************************************************************************)
RECURSIVE V9DataLoop(_, _, _, _, _)
V9DataLoop(offset, L, w, avail, n) ==
    LET padding_size == 4 - (L % 4) IN
    IF offset <= L - padding_size
    THEN IF offset + w > avail THEN -1
         ELSE V9DataLoop(offset + w, L, w, avail, n + 1)
    ELSE n

V9DataFlowSet(L, template, avail) ==
    LET w == SumLen(template.fields) IN
    IF w = 0 /\ 4 <= L - (4 - (L % 4)) THEN -2
    ELSE V9DataLoop(4, L, w, avail, 0)

(***************************************************************************)
(* v9.py, V9TemplateFlowSet.__init__ / V9OptionsTemplateFlowSet.__init__:  *)
(* the dict id -> template of one (options) template flowset.  A later     *)
(* record of the same id replaces an earlier one.  src is a history tag    *)
(* (the number of the packet that carried the template); the code never   *)
(* reads it.                                                               *)
(***************************************************************************)
(* v9.py, V9_FIELD_TYPES: the keys of the registry among the field types   *)
(* the templates here use; 43 and 51 are not keys of it                    *)
V9_FIELD_TYPES == {0, 1, 2, 4, 7, 8, 12}

(* lines 456-464: a field type that is not in the registry becomes type 0, *)
(* UNKNOWN_FIELD_TYPE                                                      *)
RECURSIVE V9TemplateFields(_)
V9TemplateFields(fields) ==
    IF fields = <<>> THEN <<>>
    ELSE << <<IF Head(fields)[1] \in V9_FIELD_TYPES THEN Head(fields)[1] ELSE 0,
              Head(fields)[2]>> >> \o V9TemplateFields(Tail(fields))

RECURSIVE V9TemplateFlowSet(_, _, _)
V9TemplateFlowSet(tmpls, kind, src) ==
    IF tmpls = <<>> THEN <<>>
    ELSE LET r == tmpls[Len(tmpls)] IN
         DictPut(V9TemplateFlowSet(SubSeq(tmpls, 1, Len(tmpls) - 1), kind, src),
                 r.tid, [kind |-> kind,
                         fields |-> IF kind = "tmpl" THEN V9TemplateFields(r.fields)
                                    ELSE r.fields,
                         src |-> src])

(* lines 524-527 and 536-539: register every template of the flowset *)
RECURSIVE V9Register(_, _)
V9Register(acc, tfs) ==
    IF tfs = <<>> THEN acc
    ELSE V9Register([acc EXCEPT
                        !.new = @ \/ ~DictHas(acc.tpl, Head(tfs).k),
                        !.tpl = DictPut(@, Head(tfs).k, Head(tfs).v)],
                    Tail(tfs))

RECURSIVE SetOctets(_)
SetOctets(sets) ==
    IF sets = <<>> THEN 0 ELSE Head(sets).length + SetOctets(Tail(sets))

(* lines 555-572 and 586-592: one data flowset decoded with its template *)
(* v9.py, lines 233-258: the values of a record are kept in the dict       *)
(* new_record.data under the name of the field type; here the keys of that *)
(* dict, the field types of the template                                   *)
V9DataRecord(fields) == {fields[i][1] : i \in 1..Len(fields)}

V9Flows(acc, s, t, n) ==
    IF n = -1 THEN [acc EXCEPT !.err = "struct.error"]
    ELSE IF n = -2 THEN [acc EXCEPT !.err = "hang"]
    ELSE [acc EXCEPT !.flows = @ \o Repeat([tid |-> s.id, tmpl |-> t,
                                             data |-> V9DataRecord(t.fields)], n)]

V9Data(acc, s, avail) ==
    IF DictVal(acc.tpl, s.id).kind = "tmpl"
    THEN V9Flows(acc, s, DictVal(acc.tpl, s.id),
                 V9DataFlowSet(s.length, DictVal(acc.tpl, s.id), avail))
    ELSE acc

(* lines 515-572: the walk over the flowsets, from flowset i on.  A flowset  *)
(* of declared length 0 ends the walk (the break statements).              *)
V9FlowSet(sets, i, acc, tail, src) ==
    IF sets[i].id = 0
    THEN V9Register(acc, V9TemplateFlowSet(sets[i].tmpls, "tmpl", src))
    ELSE IF sets[i].id = 1
    THEN V9Register(acc, V9TemplateFlowSet(sets[i].tmpls, "opts", src))
    ELSE IF ~DictHas(acc.tpl, sets[i].id)
    THEN [acc EXCEPT !.skipped = Append(@, i)]
    ELSE V9Data(acc, sets[i], SetOctets(SubSeq(sets, i, Len(sets))) + tail)

RECURSIVE V9Walk(_, _, _, _, _)
V9Walk(sets, i, acc, tail, src) ==
    IF acc.err # "" THEN acc
    ELSE IF i > Len(sets)
    THEN IF tail # 0 THEN [acc EXCEPT !.err = "struct.error"] ELSE acc
    ELSE IF sets[i].length = 0 THEN V9FlowSet(sets, i, acc, tail, src)
    ELSE V9Walk(sets, i + 1, V9FlowSet(sets, i, acc, tail, src), tail, src)

(* lines 576-592: the flowsets skipped by the walk, tried again *)
RECURSIVE V9Retry(_, _, _, _)
V9Retry(sets, skipped, acc, tail) ==
    IF acc.err # "" \/ skipped = <<>> THEN acc
    ELSE IF ~DictHas(acc.tpl, sets[Head(skipped)].id)
    THEN [acc EXCEPT !.err = "TemplateNotRecognized"]
    ELSE V9Retry(sets, Tail(skipped),
                 V9Data(acc, sets[Head(skipped)],
                        SetOctets(SubSeq(sets, Head(skipped), Len(sets))) + tail),
                 tail)

(* the skipped flowsets never tried again *)
V9Skipped_deferred(data, acc) ==
    IF acc.err # "" THEN acc
    ELSE IF acc.skipped # <<>>
    THEN [acc EXCEPT !.err = "TemplateNotRecognized"]
    ELSE acc

(* a packet decoded although flowsets were skipped *)
V9Skipped_ignored(data, acc) == acc

(* lines 574-595: after the walk, the skipped flowsets *)
V9Skipped(data, acc) ==
    IF acc.err # "" THEN acc
    ELSE IF acc.skipped # <<>> /\ acc.new
    THEN V9Retry(data.sets, acc.skipped, acc, data.tail)
    ELSE IF acc.skipped # <<>>
    THEN [acc EXCEPT !.err = "TemplateNotRecognized"]
    ELSE acc

V9Outcome(acc) ==
    IF acc.err = "" THEN Outcome("ok", "", acc.tpl, 9, acc.new, acc.flows)
    ELSE IF acc.err = "TemplateNotRecognized"
    THEN Outcome("TemplateNotRecognized", "V9TemplateNotRecognized", acc.tpl, 9, FALSE, <<>>)
    ELSE Outcome("error", acc.err, acc.tpl, 9, FALSE, <<>>)

(* v9.py, V9ExportPacket.__init__ *)
V9ExportPacket(data, templates, src) ==
    V9Outcome(V9Skipped(data,
        V9Walk(data.sets, 1,
               [tpl |-> templates, new |-> FALSE, flows |-> <<>>,
                skipped |-> <<>>, err |-> ""],
               data.tail, src)))


(***************************************************************************)
(* ipfix.py, IPFIXSetHeader.__init__: the forbidden set ids.               *)
(***************************************************************************)
IPFIXSetHeader(set_id) == ~(set_id \in {0, 1} \/ set_id \in 4..255)

(***************************************************************************)
(* ipfix.py, IPFIXSet.__init__, template and options template sets         *)
(* (lines 816-856): the dict id -> field list of the set, None for a       *)
(* record with field count 0.                                              *)
(***************************************************************************)
RECURSIVE IPFIXSetTemplates(_, _)
IPFIXSetTemplates(tmpls, src) ==
    IF tmpls = <<>> THEN <<>>
    ELSE LET r == tmpls[Len(tmpls)] IN
         DictPut(IPFIXSetTemplates(SubSeq(tmpls, 1, Len(tmpls) - 1), src), r.tid,
                 IF r.fields = <<>> THEN None
                 ELSE [kind |-> "tmpl", fields |-> r.fields, src |-> src])

(***************************************************************************)
(* ipfix.py, IPFIXSet.__init__, data sets (lines 858-886): err names the   *)
(* exception ("" for none), n is the number of records.                    *)
(***************************************************************************)
(* ipfix.py, IPFIXFieldTypes.iana_field_types and IPFIXDataTypes.is_bytes: *)
(* of the field ids the templates here use (1, 2, 4, 7, 8, 12), those      *)
(* whose type is unpacked as raw octets (ipv4Address)                      *)
IPFIXBytesFields == {8, 12}

(* ipfix.py, IPFIXDataRecord.__init__, lines 726-762: the unpack format is *)
(* built field by field; an integer or float field whose length is not 1,  *)
(* 2, 4 or 8 raises IPFIXTemplateError.  "" when the format is built.      *)
IPFIXDataRecord(fields) ==
    IF \E i \in 1..Len(fields) :
          fields[i][1] \notin IPFIXBytesFields /\ fields[i][2] \notin {1, 2, 4, 8}
    THEN "IPFIXTemplateError"
    ELSE ""

IPFIXDataSet(s, templates) ==
    IF ~DictHas(templates, s.id) THEN [err |-> "IPFIXTemplateNotRecognized", n |-> 0]
    ELSE LET t == DictVal(templates, s.id) IN
         IF t = None THEN [err |-> "IPFIXTemplateNotRecognized", n |-> 0]
         ELSE LET dataset_length == SumLen(t.fields) IN
              IF dataset_length = 0 THEN [err |-> "ZeroDivisionError", n |-> 0]
              ELSE IF s.length < IPFIXSetHeaderSize THEN [err |-> "ValueError", n |-> 0]
              ELSE LET rest == (s.length - IPFIXSetHeaderSize) % dataset_length IN
                   IF s.length - IPFIXSetHeaderSize >= dataset_length
                      /\ IPFIXDataRecord(t.fields) # ""
                   THEN [err |-> IPFIXDataRecord(t.fields), n |-> 0]
                   ELSE IF rest # 0 /\ ~s.pad0
                   THEN [err |-> "PaddingCalculationError", n |-> 0]
                   ELSE [err |-> "",
                         n |-> (s.length - IPFIXSetHeaderSize) \div dataset_length]

(* the first entry with value None in dict order, 0 when there is none *)
FirstNone(d) ==
    IF \E i \in 1..Len(d) : d[i].v = None
    THEN CHOOSE i \in 1..Len(d) : d[i].v = None /\ \A j \in 1..(i - 1) : d[j].v # None
    ELSE 0

(***************************************************************************)
(* ipfix.py, IPFIXExportPacket.__init__, lines 946-967: the walk over the  *)
(* sets.  After a template set the store is updated and then scanned for   *)
(* None values (lines 955-958): deleting an entry while iterating the dict *)
(* makes the next iteration step raise RuntimeError.                       *)
(***************************************************************************)
(* lines 951-958: the store after update(), then the scan for None *)
IPFIXTemplatesUpdate(acc, s, upd) ==
    IF FirstNone(upd) # 0
    THEN [acc EXCEPT !.new = TRUE, !.tpl = DictDel(upd, upd[FirstNone(upd)].k),
                     !.err = "RuntimeError"]
    ELSE IF s.length = 0
    THEN [acc EXCEPT !.new = TRUE, !.tpl = upd, !.err = "hang"]
    ELSE [acc EXCEPT !.new = TRUE, !.tpl = upd]

(* lines 959-960: the records of a data set join the flows *)
IPFIXFlows(acc, s, r) ==
    IF r.err = ""
    THEN [acc EXCEPT !.flows = @ \o
              Repeat([tid |-> s.id, tmpl |-> DictVal(acc.tpl, s.id)], r.n)]
    ELSE [acc EXCEPT !.err = r.err]

IPFIXOneSet(acc, s, src) ==
    IF ~IPFIXSetHeader(s.id) THEN [acc EXCEPT !.err = "IPFIXRFCError"]
    ELSE IF s.id \in {2, 3}
    THEN IPFIXTemplatesUpdate(acc, s, DictUpdate(acc.tpl, IPFIXSetTemplates(s.tmpls, src)))
    ELSE IPFIXFlows(acc, s, IPFIXDataSet(s, acc.tpl))

(* the offset of set i in the message: the header and the sets before it *)
IPFIXOffset(sets, i) == IPFIXHeaderSize + SetOctets(SubSeq(sets, 1, i - 1))

(* lines 946-967: sets are read while the offset is below header.length    *)
(* (data.total); each set is read from data[offset:], whatever the length  *)
(* of the message; a set header of which fewer than 4 octets are left in   *)
(* the datagram raises struct.error; line 966 compares the final offset    *)
RECURSIVE IPFIXWalk(_, _, _, _)
IPFIXWalk(data, i, acc, src) ==
    IF acc.err # "" THEN acc
    ELSE IF IPFIXOffset(data.sets, i) = data.total THEN acc
    ELSE IF IPFIXOffset(data.sets, i) > data.total
    THEN [acc EXCEPT !.err = "IPFIXMalformedPacket"]
    ELSE IF i > Len(data.sets) THEN [acc EXCEPT !.err = "struct.error"]
    ELSE IPFIXWalk(data, i + 1, IPFIXOneSet(acc, data.sets[i], src), src)

(* ipfix.py, IPFIXExportPacket.__init__ *)
IPFIXOutcome(acc) ==
    IF acc.err = "" THEN Outcome("ok", "", acc.tpl, 10, acc.new, acc.flows)
    ELSE IF acc.err = "IPFIXTemplateNotRecognized"
    THEN Outcome("TemplateNotRecognized", acc.err, acc.tpl, 10, FALSE, <<>>)
    ELSE Outcome("error", acc.err, acc.tpl, 10, FALSE, <<>>)

IPFIXExportPacket(data, templates, src) ==
    IPFIXOutcome(IPFIXWalk(data, 1,
        [tpl |-> templates, new |-> FALSE, flows |-> <<>>, err |-> ""], src))

(***************************************************************************)
(* v5.py, V5ExportPacket.__init__: count records of 48 octets are read     *)
(* after the header; the last octet a record reads is octet 45.            *)
(***************************************************************************)
V5ExportPacket(data) ==
    IF data.count > 0 /\ data.body < (data.count - 1) * FlowLength + 46
    THEN [status |-> "error", err |-> "struct.error", version |-> 5,
          new |-> FALSE, flows |-> <<>>]
    ELSE [status |-> "ok", err |-> "", version |-> 5, new |-> FALSE,
          flows |-> Repeat([tid |-> 5, tmpl |-> None], data.count)]

(***************************************************************************)
(* v1.py, V1ExportPacket.__init__: line 68 names V1DataFlow, which the     *)
(* module does not define (its record class is DataFlow): the first        *)
(* iteration of the loop raises NameError.                                 *)
(***************************************************************************)
V1ExportPacket(data) ==
    IF data.count > 0
    THEN [status |-> "error", err |-> "NameError", version |-> 1,
          new |-> FALSE, flows |-> <<>>]
    ELSE [status |-> "ok", err |-> "", version |-> 1, new |-> FALSE, flows |-> <<>>]

(* utils.py, get_export_version *)
get_export_version(data) == data.version

(***************************************************************************)
(* utils.py, parse_packet.  templates is the dict {"netflow", "ipfix"}.    *)
(* Octets that are valid UTF-8 are taken for a hex dump (lines 72-80):     *)
(* bytes.fromhex raises ValueError unless the text is hexadecimal.         *)
(***************************************************************************)
(* v1 and v5 decode without templates: the dict is as it was *)
NoTemplates(templates, r) ==
    Outcome(r.status, r.err, templates, r.version, FALSE, r.flows)

(* the decoder was given templates[key] and has updated it in place *)
InPlace(templates, key, r) ==
    [r EXCEPT !.templates = [templates EXCEPT ![key] = r.templates]]

(* one store for both families: IPFIX decoded with the netflow templates *)
parse_packet_one_store(data, templates, src) ==
    IF data.enc = "text"
    THEN Outcome("error", "ValueError", templates, 0, FALSE, <<>>)
    ELSE IF get_export_version(data) = 1
    THEN NoTemplates(templates, V1ExportPacket(data))
    ELSE IF get_export_version(data) = 5
    THEN NoTemplates(templates, V5ExportPacket(data))
    ELSE IF get_export_version(data) = 9
    THEN InPlace(templates, "netflow", V9ExportPacket(data, templates.netflow, src))
    ELSE IF get_export_version(data) = 10
    THEN InPlace(templates, "netflow", IPFIXExportPacket(data, templates.netflow, src))
    ELSE Outcome("UnknownExportVersion", "UnknownExportVersion", templates,
                 get_export_version(data), FALSE, <<>>)

parse_packet(data, templates, src) ==
    IF data.enc = "text"
    THEN Outcome("error", "ValueError", templates, 0, FALSE, <<>>)
    ELSE IF get_export_version(data) = 1
    THEN NoTemplates(templates, V1ExportPacket(data))
    ELSE IF get_export_version(data) = 5
    THEN NoTemplates(templates, V5ExportPacket(data))
    ELSE IF get_export_version(data) = 9
    THEN InPlace(templates, "netflow", V9ExportPacket(data, templates.netflow, src))
    ELSE IF get_export_version(data) = 10
    THEN InPlace(templates, "ipfix", IPFIXExportPacket(data, templates.ipfix, src))
    ELSE Outcome("UnknownExportVersion", "UnknownExportVersion", templates,
                 get_export_version(data), FALSE, <<>>)


(***************************************************************************)
(* Bounds of the model.                                                    *)
(***************************************************************************)
MaxPackets == 3

MaxHandlers == 2

MaxTicks == 1

(* the largest declared length of a generated data flowset or data set *)
MaxSetLength == 20

(***************************************************************************)
(* The datagrams the exporters send.                                       *)
(***************************************************************************)
(* ordered field lists, <<field type, field length>> *)
L1 == << <<8, 4>>, <<12, 4>> >>

L2 == << <<1, 4>> >>

(* a record width that is not a multiple of 4 *)
L3 == << <<4, 1>>, <<7, 2>> >>

(* a counter (octetDeltaCount, unsigned64) exported with 3 octets *)
L4 == << <<1, 3>> >>

(* two fields of types the v9 registry does not know *)
L5 == << <<43, 4>>, <<51, 4>> >>

(* the octets of the template records: 4 for id and field count, 4 a field *)
RECURSIVE RecordOctets(_)
RecordOctets(tmpls) ==
    IF tmpls = <<>> THEN 0
    ELSE 4 + 4 * Len(Head(tmpls).fields) + RecordOctets(Tail(tmpls))

TemplateSet(set_id, tmpls) ==
    [id |-> set_id, tmpls |-> tmpls, pad0 |-> TRUE, length |-> 4 + RecordOctets(tmpls)]

DataSet(set_id, length) ==
    [id |-> set_id, tmpls |-> <<>>, pad0 |-> TRUE, length |-> length]

(* total is the length field of the IPFIX message header: here the header  *)
(* and the sets of the datagram                                            *)
Dgram(enc, version, sets, tail) ==
    [enc |-> enc, version |-> version, count |-> 0, body |-> 0, sets |-> sets, tail |-> tail,
     total |-> IPFIXHeaderSize + SetOctets(sets)]

Fixed(version, count, body) ==
    [enc |-> "bin", version |-> version, count |-> count, body |-> body,
     sets |-> <<>>, tail |-> 0, total |-> 0]

(* tests/lib.py, PACKET_INVALID: 21 octets 0xFF *)
PACKET_INVALID == Dgram("bin", 65535, <<>>, 0)

(* a datagram of plain text, "he..." *)
PACKET_TEXT == Dgram("text", 26725, <<>>, 0)

PACKET_V5 == Fixed(5, 1, 48)

(* templates and flows in one packet, as PACKET_V9_TEMPLATE of the tests *)
PACKET_V9_TEMPLATE ==
    Dgram("bin", 9, <<TemplateSet(0, <<[tid |-> 256, fields |-> L1]>>), DataSet(256, 12)>>, 0)

PACKET_V9_DATA == Dgram("bin", 9, <<DataSet(256, 12)>>, 0)

(* the same id with another field list *)
PACKET_V9_TEMPLATE2 ==
    Dgram("bin", 9, <<TemplateSet(0, <<[tid |-> 256, fields |-> L2]>>)>>, 0)

(* a template for 256 and a data flowset of the id 300, which this packet  *)
(* does not define                                                         *)
PACKET_V9_PARTIAL ==
    Dgram("bin", 9, <<TemplateSet(0, <<[tid |-> 256, fields |-> L1]>>), DataSet(300, 12)>>, 0)

(* the template 300 alone *)
PACKET_V9_T300 ==
    Dgram("bin", 9, <<TemplateSet(0, <<[tid |-> 300, fields |-> L1]>>)>>, 0)

(* a data flowset cut short: with template 256 of width 8 the second       *)
(* record would end beyond the datagram                                    *)
PACKET_V9_SHORT == Dgram("bin", 9, <<DataSet(256, 14)>>, 0)

(* a v9 data packet whose octets all are below 0x80 *)
PACKET_V9_ASCII == Dgram("text", 9, <<DataSet(256, 12)>>, 0)

PACKET_IPFIX_TEMPLATE ==
    Dgram("bin", 10, <<TemplateSet(2, <<[tid |-> 256, fields |-> L1]>>)>>, 0)

PACKET_IPFIX_DATA == Dgram("bin", 10, <<DataSet(256, 12)>>, 0)

(* the data set comes before the template set that defines it *)
PACKET_IPFIX_MIXED ==
    Dgram("bin", 10, <<DataSet(257, 12), TemplateSet(2, <<[tid |-> 257, fields |-> L1]>>)>>, 0)

(* a set with the forbidden id 4 *)
PACKET_IPFIX_FORBIDDEN == Dgram("bin", 10, <<DataSet(4, 4)>>, 0)

(* the data flowset comes before the template flowset that defines it *)
PACKET_V9_DATA_FIRST ==
    Dgram("bin", 9, <<DataSet(256, 12), TemplateSet(0, <<[tid |-> 256, fields |-> L1]>>)>>, 0)

(* template 256, a data flowset of 256 and one of the id 300, which this   *)
(* packet does not define                                                  *)
PACKET_V9_HALF ==
    Dgram("bin", 9, <<TemplateSet(0, <<[tid |-> 256, fields |-> L1]>>),
                      DataSet(256, 12), DataSet(300, 12)>>, 0)

(* a template record with field count 0 for the id 256 *)
PACKET_V9_WITHDRAW ==
    Dgram("bin", 9, <<TemplateSet(0, <<[tid |-> 256, fields |-> <<>>]>>)>>, 0)

PACKET_IPFIX_WITHDRAW ==
    Dgram("bin", 10, <<TemplateSet(2, <<[tid |-> 256, fields |-> <<>>]>>)>>, 0)

(* template 256 and a data set of the id 300, which no packet defines *)
PACKET_IPFIX_HALF ==
    Dgram("bin", 10, <<TemplateSet(2, <<[tid |-> 256, fields |-> L1]>>), DataSet(300, 12)>>, 0)

(***************************************************************************)
(* The traffic of one run: up to MaxPackets datagrams, each drawn from one *)
(* of these mixes of <<client, datagram>> pairs.                           *)
(***************************************************************************)
MixNames == {"v9", "partial", "ipfix", "mixed", "invalid", "broken",
             "order", "withdraw9", "withdraw10", "retry"}

Mixes ==
    [ v9      |-> { <<"A", PACKET_V9_TEMPLATE>>, <<"A", PACKET_V9_DATA>>,
                    <<"A", PACKET_V9_TEMPLATE2>>, <<"B", PACKET_V9_DATA>> },
      partial |-> { <<"A", PACKET_V9_DATA>>, <<"A", PACKET_V9_PARTIAL>>,
                    <<"A", PACKET_V9_T300>> },
      ipfix   |-> { <<"A", PACKET_IPFIX_TEMPLATE>>, <<"A", PACKET_IPFIX_DATA>>,
                    <<"A", PACKET_V9_TEMPLATE>>, <<"A", PACKET_V9_DATA>> },
      mixed   |-> { <<"A", PACKET_IPFIX_MIXED>>, <<"A", PACKET_IPFIX_TEMPLATE>> },
      invalid |-> { <<"A", PACKET_INVALID>>, <<"A", PACKET_TEXT>>, <<"A", PACKET_V5>>,
                    <<"A", PACKET_V9_TEMPLATE>> },
      broken  |-> { <<"A", PACKET_V9_SHORT>>, <<"A", PACKET_V9_ASCII>>,
                    <<"A", PACKET_IPFIX_FORBIDDEN>>, <<"A", PACKET_V9_TEMPLATE>> },
      order   |-> { <<"A", PACKET_V9_TEMPLATE2>>, <<"A", PACKET_V9_DATA_FIRST>>,
                    <<"A", PACKET_V9_HALF>>, <<"A", PACKET_V9_T300>> },
      withdraw9  |-> { <<"A", PACKET_V9_TEMPLATE>>, <<"A", PACKET_V9_WITHDRAW>>,
                       <<"A", PACKET_V9_DATA>> },
      withdraw10 |-> { <<"A", PACKET_IPFIX_TEMPLATE>>, <<"A", PACKET_IPFIX_WITHDRAW>>,
                       <<"A", PACKET_IPFIX_DATA>> },
      retry   |-> { <<"A", PACKET_IPFIX_HALF>>, <<"A", PACKET_IPFIX_TEMPLATE>> } ]

(***************************************************************************)
(* The inputs of single decodings: one datagram, decoded against a store   *)
(* that is empty or holds the template 256 with one of four layouts in     *)
(* both families, or is the store a v9 template record without fields      *)
(* leaves behind.                                                          *)
(***************************************************************************)
StoreOf(fields) ==
    <<[k |-> 256, v |-> [kind |-> "tmpl", fields |-> fields, src |-> 0]]>>

DecodeStores ==
    {[netflow |-> <<>>, ipfix |-> <<>>]}
        \cup {[netflow |-> StoreOf(f), ipfix |-> StoreOf(f)] : f \in {L1, L2, L3, L4}}
        \cup {[netflow |-> StoreOf(<<>>), ipfix |-> <<>>]}

(* two template sets of 16 octets each *)
PACKET_IPFIX_TWO_SETS ==
    Dgram("bin", 10, <<TemplateSet(2, <<[tid |-> 257, fields |-> L1]>>),
                       TemplateSet(2, <<[tid |-> 258, fields |-> L1]>>)>>, 0)

(* a template set of declared length 0: the four octets of its header, and *)
(* a message header that counts them                                       *)
PACKET_IPFIX_SET0 ==
    [Dgram("bin", 10, <<[TemplateSet(2, <<>>) EXCEPT !.length = 0]>>, 0)
        EXCEPT !.total = IPFIXHeaderSize + IPFIXSetHeaderSize]

DecodeDatagrams ==
    (* v9: a data flowset of every declared length, alone and followed by  *)
    (* another flowset                                                     *)
    {Dgram("bin", 9, <<DataSet(256, L)>>, 0) : L \in 4..MaxSetLength}
    \cup {Dgram("bin", 9, <<DataSet(256, L), DataSet(256, 12)>>, 0) : L \in 4..MaxSetLength}
    (* v9: templates with field types the registry does not know, and a    *)
    (* record of each                                                      *)
    \cup {Dgram("bin", 9, <<TemplateSet(0, <<[tid |-> 257, fields |-> f]>>),
                            DataSet(257, 4 + SumLen(f))>>, 0) :
              f \in {L5, << <<43, 4>> >>, << <<1, 4>>, <<43, 4>> >>}}
    (* v9: a flowset with a reserved id behind a template and its data *)
    \cup {Dgram("bin", 9, <<TemplateSet(0, <<[tid |-> 256, fields |-> L1]>>),
                            DataSet(256, 12), DataSet(id, 8)>>, 0) : id \in {2, 255}}
    (* IPFIX: a data set of every declared length, the octets behind the   *)
    (* last record zero or not                                             *)
    \cup {Dgram("bin", 10, <<[DataSet(256, L) EXCEPT !.pad0 = z]>>, 0) :
              L \in 4..MaxSetLength, z \in BOOLEAN}
    (* IPFIX: sets with forbidden ids, alone, behind a data set of an      *)
    (* unknown id, behind a template set                                   *)
    \cup {Dgram("bin", 10, <<DataSet(id, 4)>>, 0) : id \in {0, 1, 4, 255}}
    \cup {Dgram("bin", 10, <<DataSet(300, 12), DataSet(4, 4)>>, 0),
          Dgram("bin", 10, <<TemplateSet(2, <<[tid |-> 257, fields |-> L1]>>),
                             DataSet(4, 4)>>, 0)}
    (* IPFIX: the length field of the header before, inside, between and   *)
    (* behind the sets of the datagram                                     *)
    \cup {[PACKET_IPFIX_TWO_SETS EXCEPT !.total = t] : t \in {10, 16, 20, 32, 36, 48, 52}}
    (* IPFIX: a set of declared length 0 *)
    \cup {PACKET_IPFIX_SET0}
    (* v1 and v5: count records of 48 octets *)
    \cup {Fixed(v, c, c * FlowLength) : v \in {1, 5}, c \in 0..2}
    (* v1 and v5: fewer or more octets behind the header than count says *)
    \cup {Fixed(v, c, b) : v \in {1, 5}, c \in 0..2, b \in {0, 40, 47, 96}}
    (* octets that are valid UTF-8 *)
    \cup {PACKET_TEXT, PACKET_V9_ASCII}
    (* a version field that names no decoder *)
    \cup {PACKET_INVALID}

(***************************************************************************)
(* The state.                                                              *)
(*   now       the clock (time.time())                                     *)
(*   server    the UDP server thread: "serving" or "closed"                *)
(*   handlers  the request handler threads that have taken the time and    *)
(*             not yet put their RawPacket                                 *)
(*   input     ThreadedNetFlowListener.input, output: .output              *)
(*   thread    the processing thread, started: "loop" at the while test,   *)
(*             "get" inside input.get, "exit" after the loop ended,        *)
(*             "dead" after an exception left run(), "hung" inside a       *)
(*             decoder loop that never ends                                *)
(*   shutdown  the event _shutdown                                         *)
(*   templates, to_retry  the locals of run()                              *)
(*   log       the records the processing loop hands to the logger         *)
(*   received  the datagrams received so far, in the order of arrival      *)
(*             (history only); RawPacket.n is the place in this sequence   *)
(*   mix       the traffic mix of this run                                 *)
(***************************************************************************)
VARIABLES now, server, handlers, input, output, thread, shutdown,
          templates, to_retry, log, received, mix

vars == <<now, server, handlers, input, output, thread, shutdown,
          templates, to_retry, log, received, mix>>

RawPacket(ts, client, data, n) == [ts |-> ts, client |-> client, data |-> data, n |-> n]

(* the packet stamped when it is decoded, not when it was received *)
ParsedPacket_at_decode(ts, client, export, n) ==
    [ts |-> now, client |-> client, export |-> export, n |-> n]

ParsedPacket(ts, client, export, n) ==
    [ts |-> ts, client |-> client, export |-> export, n |-> n]

LogRecord(level, event, n) == [level |-> level, event |-> event, n |-> n]

(* collector.py, ThreadedNetFlowListener.__init__ and the first lines of run *)
Init ==
    /\ now = 0
    /\ server = "serving"
    /\ handlers = {}
    /\ input = <<>>
    /\ output = <<>>
    /\ thread = "loop"
    /\ shutdown = FALSE
    /\ templates = [netflow |-> <<>>, ipfix |-> <<>>]
    /\ to_retry = <<>>
    /\ log = <<>>
    /\ received = <<>>
    /\ mix \in MixNames

(* the number of Tick steps taken so far *)
TicksUsed == now \div PACKET_TIMEOUT

(* the clock advances by PACKET_TIMEOUT or by one second more *)
Tick ==
    /\ TicksUsed < MaxTicks
    /\ \E d \in {PACKET_TIMEOUT, PACKET_TIMEOUT + 1} : now' = now + d
    /\ UNCHANGED <<server, handlers, input, output, thread, shutdown,
                   templates, to_retry, log, received, mix>>

(***************************************************************************)
(* collector.py, QueuingRequestHandler.handle, first half: the server      *)
(* thread has received a datagram and started a handler thread for it      *)
(* (ThreadingUDPServer), which builds RawPacket(time.time(), client, data).*)
(***************************************************************************)
handle_time(client, data) ==
    /\ server = "serving"
    /\ Len(received) < MaxPackets
    /\ Cardinality(handlers) < MaxHandlers
    /\ received' = Append(received, RawPacket(now, client, data, Len(received) + 1))
    /\ handlers' = handlers \cup {RawPacket(now, client, data, Len(received) + 1)}
    /\ UNCHANGED <<now, server, input, output, thread, shutdown, templates, to_retry, log, mix>>

(* handle, second half: self.server.queue.put(...) *)
handle_put(pkt) ==
    /\ pkt \in handlers
    /\ handlers' = handlers \ {pkt}
    /\ input' = Append(input, pkt)
    /\ UNCHANGED <<now, server, output, thread, shutdown, templates, to_retry, log, received, mix>>

(* collector.py, ThreadedNetFlowListener.stop *)
stop ==
    /\ ~shutdown
    /\ shutdown' = TRUE
    /\ UNCHANGED <<now, server, handlers, input, output, thread, templates, to_retry,
                   log, received, mix>>

(* run, line 120: the while test; lines 159-162 when the loop ends *)
run_while ==
    /\ thread = "loop"
    /\ IF shutdown
       THEN thread' = "exit" /\ server' = "closed"
       ELSE thread' = "get" /\ server' = server
    /\ UNCHANGED <<now, handlers, input, output, shutdown, templates, to_retry, log, received, mix>>

(* run, lines 123-125: input.get times out on the empty queue *)
run_empty ==
    /\ thread = "get"
    /\ input = <<>>
    /\ thread' = "loop"
    /\ UNCHANGED <<now, server, handlers, input, output, shutdown, templates, to_retry,
                   log, received, mix>>

(* the pending packets put back last one first *)
Requeue_reversed(queue, pkts) ==
    queue \o [i \in 1..Len(pkts) |-> pkts[Len(pkts) + 1 - i]]

(* the entries of to_retry put back into the queue, lines 154-155 *)
Requeue(queue, pkts) == queue \o pkts

(***************************************************************************)
(* run, lines 123-158: one packet is taken from the queue and processed.   *)
(***************************************************************************)
(* the comparison >= in the place of > *)
timed_out_at_limit(pkt) == now - pkt.ts >= PACKET_TIMEOUT

(* run, line 135: the age test of a packet that could not be decoded *)
timed_out(pkt) == now - pkt.ts > PACKET_TIMEOUT

run_export(pkt, export) ==
    /\ templates' = export.templates
    /\ CASE export.status = "UnknownExportVersion" ->
              /\ log' = Append(log, LogRecord("error", "ignored", pkt.n))
              /\ input' = Tail(input)
              /\ thread' = "loop"
              /\ UNCHANGED <<to_retry, output, server>>
         [] export.status = "TemplateNotRecognized" ->
              /\ IF timed_out(pkt)
                 THEN /\ log' = Append(log, LogRecord("warning", "dropped", pkt.n))
                      /\ to_retry' = to_retry
                 ELSE /\ to_retry' = Append(to_retry, pkt)
                      /\ log' = Append(log, LogRecord("debug", "deferred", pkt.n))
              /\ input' = Tail(input)
              /\ thread' = "loop"
              /\ UNCHANGED <<output, server>>
         [] export.status = "error" ->
              (* no handler: the exception leaves run() through finally;   *)
              (* a decoder loop that never advances keeps the thread inside *)
              (* parse_packet                                               *)
              /\ input' = Tail(input)
              /\ thread' = IF export.err = "hang" THEN "hung" ELSE "dead"
              /\ server' = IF export.err = "hang" THEN server ELSE "closed"
              /\ UNCHANGED <<to_retry, output, log>>
         [] export.status = "ok" ->
              /\ log' = Append(log, LogRecord("debug", "processed", pkt.n))
              /\ IF export.version \in {9, 10} /\ export.new /\ to_retry # <<>>
                 THEN /\ input' = Requeue(Tail(input), to_retry)
                      /\ to_retry' = <<>>
                 ELSE /\ input' = Tail(input)
                      /\ to_retry' = to_retry
              /\ output' = Append(output,
                     ParsedPacket(pkt.ts, pkt.client,
                         [version |-> export.version, new |-> export.new,
                          flows |-> export.flows], pkt.n))
              /\ thread' = "loop"
              /\ server' = server

run_packet ==
    /\ thread = "get"
    /\ input # <<>>
    /\ run_export(Head(input),
                  parse_packet(Head(input).data, templates, Head(input).n))
    /\ UNCHANGED <<now, handlers, shutdown, received, mix>>

(***************************************************************************)
(* v9.py line 514 and ipfix.py line 944, self._templates = templates, and  *)
(* the templates properties: the export object holds the dict it was given *)
(* (templates["netflow"] or templates["ipfix"] of run) and not a copy, so  *)
(* reading the attribute of an emitted packet reads the store as it is at  *)
(* the time of the reading.                                                *)
(***************************************************************************)
ExportTemplates(p) ==
    IF p.export.version = 9 THEN templates.netflow ELSE templates.ipfix

(* the collector at work: stop() is not called *)
Next ==
    \/ Tick
    \/ \E m \in Mixes[mix] : handle_time(m[1], m[2])
    \/ \E p \in handlers : handle_put(p)
    \/ run_while
    \/ run_empty
    \/ run_packet

Spec == Init /\ [][Next]_vars

(* the collector with stop() called at any moment *)
NextStop == Next \/ stop

SpecStop == Init /\ [][NextStop]_vars

(***************************************************************************)
(* One decoding: the loop has one datagram in its queue and decodes it     *)
(* with parse_packet against a given store.                                *)
(***************************************************************************)
InitDecode ==
    /\ now = 0
    /\ server = "serving"
    /\ handlers = {}
    /\ \E d \in DecodeDatagrams :
          /\ input = <<RawPacket(0, "A", d, 1)>>
          /\ received = <<RawPacket(0, "A", d, 1)>>
    /\ output = <<>>
    /\ thread = "get"
    /\ shutdown = FALSE
    /\ templates \in DecodeStores
    /\ to_retry = <<>>
    /\ log = <<>>
    /\ mix = "decode"

NextDecode == run_packet

SpecDecode == InitDecode /\ [][NextDecode]_vars

(***************************************************************************)
(* Vocabulary of the properties.                                           *)
(***************************************************************************)
(* the outcome of decoding the packet at the head of the queue *)
Attempt == parse_packet(Head(input).data, templates, Head(input).n)

(* a step of the loop that takes a packet whose decoding ends with status *)
Decodes(status) == run_packet /\ Attempt.status = status

(* nothing is on its way to the loop: no handler at work, the queue empty *)
Settled == handlers = {} /\ input = <<>>

(* the places of packet n in the output *)
Outputs(n) == {i \in 1..Len(output) : output[i].n = n}

(* packet n was put in the pending buffer at least once *)
WasDeferred(n) == \E i \in 1..Len(log) : log[i].event = "deferred" /\ log[i].n = n

IsTemplateSet(version, s) ==
    \/ version = 9 /\ s.id \in {0, 1}
    \/ version = 10 /\ s.id \in {2, 3}

(* the template records a datagram carries, the ids its data sets reference *)
TemplateRecords(data) ==
    UNION {{data.sets[i].tmpls[k] : k \in 1..Len(data.sets[i].tmpls)} :
           i \in {j \in 1..Len(data.sets) : IsTemplateSet(data.version, data.sets[j])}}

DataIds(data) ==
    {data.sets[i].id : i \in {j \in 1..Len(data.sets) :
                                  ~IsTemplateSet(data.version, data.sets[j])}}

(***************************************************************************)
(* C1.  One v9 packet with the templates and data packets that reference   *)
(* only these templates, all of one exporter, the template packet at any   *)
(* place: once nothing is on its way to the loop any more, every datagram  *)
(* has exactly one ParsedPacket in the output.  (Stated for runs in which  *)
(* no time passes, so that no packet can age.)                             *)
(***************************************************************************)
OneTemplatePacket ==
    /\ received # <<>>
    /\ \A i \in 1..Len(received) :
          /\ received[i].client = "A"
          /\ received[i].data \in {PACKET_V9_TEMPLATE, PACKET_V9_DATA, PACKET_V9_ASCII}
    /\ Cardinality({i \in 1..Len(received) : received[i].data = PACKET_V9_TEMPLATE}) = 1

C1_OnePerDatagram ==
    (OneTemplatePacket /\ Settled /\ now = 0)
        => \A n \in 1..Len(received) : Cardinality(Outputs(n)) = 1

(***************************************************************************)
(* C2.  A data packet that was deferred is in the output only behind the   *)
(* packet that introduced the template its records were decoded with.      *)
(***************************************************************************)
C2_TemplatePacketFirst ==
    \A i \in 1..Len(output) :
        WasDeferred(output[i].n) =>
            \A k \in 1..Len(output[i].export.flows) :
                \/ output[i].export.flows[k].tmpl.src = output[i].n
                \/ \E j \in 1..(i - 1) : output[j].n = output[i].export.flows[k].tmpl.src

(***************************************************************************)
(* C3.  A decoding that fails with an error other than TemplateNotRecognized*)
(* drops the datagram, leaves the pending buffer alone, and the loop goes  *)
(* on to the next datagram.                                                *)
(***************************************************************************)
C3_DropsAndGoesOn ==
    [][Decodes("error") =>
          /\ thread' = "loop"
          /\ server' = "serving"
          /\ to_retry' = to_retry
          /\ output' = output]_vars

(***************************************************************************)
(* C4.  A datagram whose version field is not 1, 5, 9 or 10 gives no       *)
(* ParsedPacket, is not put in the pending buffer, leaves the store as it  *)
(* is, is logged, and the loop goes on to the next datagram.               *)
(***************************************************************************)
C4_InvalidIgnored ==
    [][(run_packet /\ get_export_version(Head(input).data) \notin {1, 5, 9, 10}) =>
          /\ output' = output
          /\ to_retry' = to_retry
          /\ templates' = templates
          /\ Len(log') = Len(log) + 1
          /\ log'[Len(log')].n = Head(input).n
          /\ thread' = "loop"]_vars

(***************************************************************************)
(* C5.  No packet is in the pending buffer beyond its age limit, also when *)
(* nothing more is received: each time the loop has waited on the empty    *)
(* queue (the dequeue timeout, the small delay) no packet in the buffer is *)
(* older than PACKET_TIMEOUT.                                              *)
(***************************************************************************)
C5_NoStalePending ==
    [][run_empty =>
          \A i \in 1..Len(to_retry') : now' - to_retry'[i].ts <= PACKET_TIMEOUT]_vars

(***************************************************************************)
(* C6.  A decoding attempt, the first or a replay, that ends with          *)
(* TemplateNotRecognized drops the packet with a warning if and only if    *)
(* the time minus its receive timestamp exceeds PACKET_TIMEOUT, otherwise  *)
(* appends it to the tail of the pending buffer; in both cases nothing is  *)
(* emitted and the loop goes on to the next packet.                        *)
(***************************************************************************)
C6_DropIffAged ==
    [][Decodes("TemplateNotRecognized") =>
          /\ output' = output
          /\ thread' = "loop"
          /\ input' = Tail(input)
          /\ IF now - Head(input).ts > PACKET_TIMEOUT
             THEN /\ to_retry' = to_retry
                  /\ log' = Append(log, LogRecord("warning", "dropped", Head(input).n))
             ELSE /\ to_retry' = Append(to_retry, Head(input))
                  /\ Len(log') = Len(log) + 1
                  /\ log'[Len(log')].level # "warning"]_vars

(* a packet was deferred on its first attempt when it was not older than   *)
(* the limit, and dropped on its replay when it was                        *)
C6_Witness ==
    \E i, j \in 1..Len(log) :
        /\ i < j
        /\ log[i].n = log[j].n
        /\ log[i].event = "deferred"
        /\ log[j].event = "dropped"

(***************************************************************************)
(* C7.  The records of a data set are decoded only with a template that a  *)
(* packet of the same exporter has registered.                             *)
(***************************************************************************)
C7_OwnTemplates ==
    \A i \in 1..Len(output) :
        \A k \in 1..Len(output[i].export.flows) :
            output[i].export.flows[k].tmpl.src # 0
                => received[output[i].export.flows[k].tmpl.src].client = output[i].client

(***************************************************************************)
(* C8.  Version isolation: the netflow store holds only templates of v9    *)
(* packets and the ipfix store only templates of IPFIX packets, and the    *)
(* records of every emitted packet were decoded with templates that a      *)
(* packet of the same protocol family has registered.                      *)
(***************************************************************************)
C8_VersionIsolation ==
    /\ \A i \in 1..Len(templates.netflow) :
          received[templates.netflow[i].v.src].data.version = 9
    /\ \A i \in 1..Len(templates.ipfix) :
          received[templates.ipfix[i].v.src].data.version = 10
    /\ \A i \in 1..Len(output) :
          \A k \in 1..Len(output[i].export.flows) :
              output[i].export.flows[k].tmpl.src # 0
                  => received[output[i].export.flows[k].tmpl.src].data.version
                         = output[i].export.version

(* an IPFIX data packet was deferred after a v9 packet had registered the  *)
(* id it references, and was emitted once an IPFIX packet had defined it   *)
C8_Witness ==
    \E i \in 1..Len(output) : \E a, b \in 1..Len(log) :
        /\ output[i].export.version = 10
        /\ output[i].export.flows # <<>>
        /\ DataIds(received[output[i].n].data) \subseteq DictKeys(templates.netflow)
        /\ a < b
        /\ log[a].event = "processed"
        /\ received[log[a].n].data = PACKET_V9_TEMPLATE
        /\ log[b].event = "deferred"
        /\ log[b].n = output[i].n

(***************************************************************************)
(* C9.  contains_new_templates of a decoded v9 or IPFIX packet is true if  *)
(* and only if the packet carries a template whose id is not in the store  *)
(* or whose field list differs from the stored one.                        *)
(***************************************************************************)
NewOrChanged(data, store) ==
    \E r \in TemplateRecords(data) :
        \/ ~DictHas(store, r.tid)
        \/ DictVal(store, r.tid).fields # r.fields

C9_NewIffNewOrChanged ==
    (thread = "get" /\ input # <<>> /\ Attempt.status = "ok" /\ Attempt.version \in {9, 10})
        => (Attempt.new <=>
               NewOrChanged(Head(input).data,
                            IF Attempt.version = 9 THEN templates.netflow
                                                   ELSE templates.ipfix))

(***************************************************************************)
(* C10.  A packet received after a packet of the same exporter that        *)
(* introduces all the templates it references is never put in the pending  *)
(* buffer.                                                                 *)
(***************************************************************************)
C10_FirstAttempt ==
    \A i \in 1..Len(log) :
        log[i].event = "deferred" =>
            ~\E j \in 1..(log[i].n - 1) :
                /\ received[j].client = received[log[i].n].client
                /\ received[j].data.version = received[log[i].n].data.version
                /\ DataIds(received[log[i].n].data)
                       \subseteq {r.tid : r \in TemplateRecords(received[j].data)}

(***************************************************************************)
(* Vocabulary of the replay.                                               *)
(***************************************************************************)
(* a step of the loop that decodes a packet with new templates while the   *)
(* pending buffer is not empty: the buffer is replayed                     *)
Replays ==
    /\ Decodes("ok")
    /\ Attempt.version \in {9, 10}
    /\ Attempt.new
    /\ to_retry # <<>>

(***************************************************************************)
(* C11.  When a decoded packet introduced new templates the pending buffer *)
(* is drained as a whole and in the order of deferral, and its packets are *)
(* the next ones the loop decodes, before any other datagram that waits in *)
(* the queue.                                                              *)
(***************************************************************************)
C11_DrainFirst ==
    [][Replays =>
          /\ to_retry' = <<>>
          /\ Len(input') >= Len(to_retry)
          /\ SubSeq(input', 1, Len(to_retry)) = to_retry]_vars

(***************************************************************************)
(* The history of the loop read from the log: every decoding attempt that  *)
(* the loop survived has one record, in the order of the attempts.         *)
(***************************************************************************)
(* packet n was decoded with contains_new_templates set *)
IsNew(n) == \E i \in Outputs(n) : output[i].export.version \in {9, 10} /\ output[i].export.new

(* the numbers of the packets in the pending buffer after the first k      *)
(* attempts                                                                *)
RECURSIVE PendingAt(_)
PendingAt(k) ==
    IF k = 0 THEN <<>>
    ELSE IF log[k].event = "deferred" THEN Append(PendingAt(k - 1), log[k].n)
    ELSE IF log[k].event = "processed" /\ IsNew(log[k].n) /\ PendingAt(k - 1) # <<>>
    THEN <<>>
    ELSE PendingAt(k - 1)

(* the template store after the first k attempts *)
RECURSIVE StoreAt(_)
StoreAt(k) ==
    IF k = 0 THEN [netflow |-> <<>>, ipfix |-> <<>>]
    ELSE parse_packet(received[log[k].n].data, StoreAt(k - 1), log[k].n).templates

(* what a reader of a template dict sees: the ids and their layouts *)
Layouts(store) ==
    {<<store[i].k, store[i].v.kind, store[i].v.fields>> : i \in 1..Len(store)}

SameLayouts(s, t) ==
    /\ Layouts(s.netflow) = Layouts(t.netflow)
    /\ Layouts(s.ipfix) = Layouts(t.ipfix)

(* attempt j started a replay *)
ReplayAt(j) ==
    /\ log[j].event = "processed"
    /\ IsNew(log[j].n)
    /\ PendingAt(j - 1) # <<>>

(* the replay started by attempt j is over, the attempts that followed it  *)
(* were those of the replayed packets and of no other datagram, and the    *)
(* store has the layouts it had before attempt j                           *)
IdleReplayAt(j) ==
    /\ ReplayAt(j)
    /\ Len(log) >= j + Len(PendingAt(j - 1))
    /\ {log[j + i].n : i \in 1..Len(PendingAt(j - 1))}
           = {PendingAt(j - 1)[i] : i \in 1..Len(PendingAt(j - 1))}
    /\ SameLayouts(StoreAt(j - 1), StoreAt(j + Len(PendingAt(j - 1))))

(* the replayed packets that were put in the buffer again, in the order    *)
(* they had in the buffer                                                  *)
KeptAt(j) ==
    SelectSeq(PendingAt(j - 1),
              LAMBDA n : \E i \in 1..Len(PendingAt(j - 1)) :
                            log[j + i].n = n /\ log[j + i].event = "deferred")

LogAgrees ==
    thread \in {"loop", "get"} =>
        /\ StoreAt(Len(log)) = templates
        /\ PendingAt(Len(log)) = [i \in 1..Len(to_retry) |-> to_retry[i].n]



(***************************************************************************)
(* C13.  Every emitted ParsedPacket carries the receive timestamp and the  *)
(* client address that were attached to its datagram when it was received, *)
(* whatever the time at which it was decoded and however often it was      *)
(* deferred and replayed.                                                  *)
(***************************************************************************)
C13_ReceiveStamp ==
    \A i \in 1..Len(output) :
        /\ output[i].ts = received[output[i].n].ts
        /\ output[i].client = received[output[i].n].client
        /\ output[i].ts <= now

(* a packet that was deferred is in the output, emitted at a later time    *)
(* than the one it was received at                                         *)
C13_Witness ==
    \E i \in 1..Len(output) :
        /\ WasDeferred(output[i].n)
        /\ \E k \in 1..Len(log) :
              /\ log[k].event = "processed"
              /\ log[k].n = output[i].n
              /\ received[log[k - 1].n].ts > output[i].ts

(***************************************************************************)
(* C14.  Within one v9 packet the template flowsets are applied before any *)
(* data flowset is decoded, whatever their position: the records of every  *)
(* emitted v9 packet whose id the packet itself defines have the layout    *)
(* the packet defines, also when the id was in the store before.           *)
(***************************************************************************)
C14_OwnTemplatesFirst ==
    \A i \in 1..Len(output) :
        output[i].export.version = 9 =>
            \A k \in 1..Len(output[i].export.flows) :
                \A r \in TemplateRecords(received[output[i].n].data) :
                    r.tid = output[i].export.flows[k].tid
                        => output[i].export.flows[k].tmpl.fields = r.fields

(***************************************************************************)
(* C15.  A v9 packet whose data flowsets all come before the template      *)
(* flowsets that define them, decoded against a store that knows none of   *)
(* these ids, is decoded in one call: every record of every data flowset   *)
(* is in the result and contains_new_templates is set.                     *)
(***************************************************************************)
(* every data flowset before every template flowset, all ids defined by    *)
(* the packet itself                                                       *)
DataFirst(data) ==
    /\ data.enc = "bin"
    /\ data.version = 9
    /\ DataIds(data) # {}
    /\ DataIds(data) \subseteq {r.tid : r \in TemplateRecords(data)}
    /\ \A i, j \in 1..Len(data.sets) :
          (~IsTemplateSet(9, data.sets[i]) /\ IsTemplateSet(9, data.sets[j])) => i < j

(* the number of records in the data flowsets of the packet, each flowset  *)
(* measured with the template the packet defines for it                    *)
RECURSIVE OwnRecords(_, _)
OwnRecords(data, i) ==
    IF i > Len(data.sets) THEN 0
    ELSE IF IsTemplateSet(data.version, data.sets[i]) THEN OwnRecords(data, i + 1)
    ELSE (data.sets[i].length - 4)
             \div SumLen((CHOOSE r \in TemplateRecords(data) : r.tid = data.sets[i].id).fields)
         + OwnRecords(data, i + 1)

C16_WholePacketDeferred ==
    [][(/\ run_packet
        /\ Head(input).data.version = 9
        /\ Attempt.status # "error"
        /\ ~(DataIds(Head(input).data) \subseteq DictKeys(Attempt.templates.netflow)))
          => /\ Attempt.status = "TemplateNotRecognized"
             /\ output' = output
             /\ \/ to_retry' = Append(to_retry, Head(input))
                \/ /\ to_retry' = to_retry
                   /\ log' = Append(log, LogRecord("warning", "dropped", Head(input).n))]_vars

(* a packet with a decodable and an undecodable data flowset was deferred  *)
(* with nothing emitted, and is in the output with the records of both     *)
(* flowsets after the replay                                               *)
C16_Witness ==
    \E i \in 1..Len(output) :
        /\ received[output[i].n].data = PACKET_V9_HALF
        /\ WasDeferred(output[i].n)
        /\ Cardinality(Outputs(output[i].n)) = 1
        /\ Len(output[i].export.flows) = 2

(* the ids for which the datagram carries a template record with field     *)
(* count zero                                                              *)
Withdrawn(data) == {r.tid : r \in {x \in TemplateRecords(data) : x.fields = <<>>}}

(***************************************************************************)
(* C17.  An IPFIX packet with a template record of field count zero for    *)
(* the id T is decoded successfully; afterwards T is not in the store and  *)
(* the templates the packet does not name are as they were.                *)
(***************************************************************************)
C17_IPFIXWithdrawal ==
    [][(/\ run_packet
        /\ Head(input).data.enc = "bin"
        /\ Head(input).data.version = 10
        /\ Withdrawn(Head(input).data) # {})
          => /\ Attempt.status = "ok"
             /\ thread' = "loop"
             /\ Len(output') = Len(output) + 1
             /\ DictKeys(templates'.ipfix) \cap Withdrawn(Head(input).data) = {}
             /\ templates'.netflow = templates.netflow]_vars

(***************************************************************************)
(* C18.  A v9 template record with zero fields for the id T removes T from *)
(* the v9 store.                                                           *)
(***************************************************************************)
C18_V9Withdrawal ==
    [][(/\ run_packet
        /\ Head(input).data.enc = "bin"
        /\ Head(input).data.version = 9
        /\ Withdrawn(Head(input).data) # {}
        /\ Attempt.status = "ok")
          => DictKeys(templates'.netflow) \cap Withdrawn(Head(input).data) = {}]_vars

(* the attempt that decoded packet n *)
DecodedAt(n) == CHOOSE k \in 1..Len(log) : log[k].event = "processed" /\ log[k].n = n

(* the store of the family of emitted packet p right after p was decoded *)
StoreAfter(p) ==
    IF p.export.version = 9 THEN StoreAt(DecodedAt(p.n)).netflow
                            ELSE StoreAt(DecodedAt(p.n)).ipfix

(***************************************************************************)
(* C19.  The templates map of an emitted ParsedPacket is a snapshot: at    *)
(* any later time a reader finds in it the ids and layouts the store had   *)
(* right after the packet was decoded.                                     *)
(***************************************************************************)
C19_TemplatesSnapshot ==
    \A i \in 1..Len(output) :
        output[i].export.version \in {9, 10}
            => Layouts(ExportTemplates(output[i])) = Layouts(StoreAfter(output[i]))

(***************************************************************************)
(* C20.  Packets of one exporter that were never deferred are emitted in   *)
(* the order of their receive timestamps, under every interleaving of the  *)
(* handler threads.                                                        *)
(***************************************************************************)
C20_ReceiveOrder ==
    \A i, j \in 1..Len(output) :
        (/\ i < j
         /\ output[i].client = output[j].client
         /\ ~WasDeferred(output[i].n)
         /\ ~WasDeferred(output[j].n))
            => output[i].ts <= output[j].ts

(***************************************************************************)
(* C21.  After stop() the processing loop exits after at most the packet   *)
(* in progress and the server is shut down: once the shutdown event is     *)
(* set, the thread has ended with the server closed, or it is at the while *)
(* test, which ends the loop, or in the dequeue or the packet in progress, *)
(* which lead back to the test.                                            *)
(***************************************************************************)
C21_StopTerminates ==
    shutdown =>
        \/ thread \in {"exit", "dead"} /\ server = "closed"
        \/ thread \in {"loop", "get"}

(***************************************************************************)
(* C22.  On shutdown every datagram in the queue is decoded before the     *)
(* loop exits and every packet in the pending buffer is dropped with a log *)
(* message: when the while test ends the loop the queue is empty and every *)
(* pending packet has its record of the drop.                              *)
(***************************************************************************)
C22_DrainOnShutdown ==
    [][(run_while /\ shutdown) =>
          /\ input = <<>>
          /\ \A i \in 1..Len(to_retry) :
                \E k \in 1..Len(log') :
                    log'[k].n = to_retry[i].n /\ log'[k].event = "dropped"]_vars

(***************************************************************************)
(* C23.  No datagram is discarded silently: once the processing thread has *)
(* ended, every datagram that reached the queue and is not in the output   *)
(* has a log record at level warning or above.                             *)
(***************************************************************************)
C23_NoSilentDiscard ==
    thread \in {"exit", "dead"} =>
        \A n \in 1..Len(received) :
            (received[n] \notin handlers /\ Outputs(n) = {})
                => \E k \in 1..Len(log) :
                       log[k].n = n /\ log[k].level \in {"warning", "error"}





(***************************************************************************)
(* Vocabulary of the single decodings.                                     *)
(***************************************************************************)
(* a datagram is at the head of the queue and the loop is about to decode  *)
(* it                                                                      *)
AtDecoder == thread = "get" /\ input # <<>>

(* the datagram with its octets taken as they are *)
OctetsAsReceived(data) == [data EXCEPT !.enc = "bin"]

(***************************************************************************)
(* C24.  The decoder is chosen from the version field alone and is given   *)
(* the octets of the datagram unmodified, also when the octets are valid   *)
(* UTF-8 text: the decoding of every datagram is the decoding of its       *)
(* octets as they were received.                                           *)
(***************************************************************************)
C24_OctetsUnmodified ==
    AtDecoder =>
        Attempt = parse_packet(OctetsAsReceived(Head(input).data), templates, Head(input).n)

(***************************************************************************)
(* C25.  The length field of the IPFIX header is authoritative: a message  *)
(* is decoded successfully only if a set ends exactly at that offset, a    *)
(* walk that cannot end there fails with IPFIXMalformedPacket, and no set  *)
(* that reaches beyond that offset contributes a template.                 *)
(***************************************************************************)
(* the sets of the message that end at or before the length field *)
SetsWithin(data) ==
    {i \in 1..Len(data.sets) : IPFIXOffset(data.sets, i + 1) <= data.total}

EndsAtTotal(data) ==
    \E i \in 1..(Len(data.sets) + 1) : IPFIXOffset(data.sets, i) = data.total

C25_TotalLengthAuthoritative ==
    (AtDecoder /\ Head(input).data.enc = "bin" /\ Head(input).data = 
         [PACKET_IPFIX_TWO_SETS EXCEPT !.total = Head(input).data.total])
        => /\ Attempt.status = "ok" => EndsAtTotal(Head(input).data)
           /\ ~EndsAtTotal(Head(input).data) => Attempt.err = "IPFIXMalformedPacket"
           /\ DictKeys(Attempt.templates.ipfix) \ DictKeys(templates.ipfix)
                 \subseteq UNION {{Head(input).data.sets[i].tmpls[k].tid :
                                      k \in 1..Len(Head(input).data.sets[i].tmpls)} :
                                  i \in SetsWithin(Head(input).data)}



(***************************************************************************)
(* C26.  An IPFIX data set of length L whose template has records of w     *)
(* octets holds (L - 4) div w records.  The set is accepted when the       *)
(* octets behind the last record are all zero, and the decode fails with   *)
(* PaddingCalculationError when one of them is not.                        *)
(***************************************************************************)
(* the message at the decoder is one IPFIX data set whose template the     *)
(* store holds                                                             *)
OneDataSet(data, store) ==
    /\ data.version = 10 /\ data.enc = "bin"
    /\ Len(data.sets) = 1
    /\ data.sets[1].id >= 256
    /\ DictHas(store, data.sets[1].id)
    /\ data.total = IPFIXHeaderSize + data.sets[1].length

Width(store, id) == SumLen(DictVal(store, id).fields)

C26_IPFIXDataSetRecords ==
    (AtDecoder /\ OneDataSet(Head(input).data, templates.ipfix)) =>
        LET s == Head(input).data.sets[1]
            w == Width(templates.ipfix, s.id)
        IN  IF (s.length - IPFIXSetHeaderSize) % w = 0 \/ s.pad0
            THEN /\ Attempt.status = "ok"
                 /\ Len(Attempt.flows) = (s.length - IPFIXSetHeaderSize) \div w
            ELSE /\ Attempt.status = "error"
                 /\ Attempt.err = "PaddingCalculationError"

(* what the decoder does keep: the claim for templates whose integer      *)
(* fields have 1, 2, 4 or 8 octets                                         *)
IPFIXDataSetRecordsSupported ==
    (/\ AtDecoder /\ OneDataSet(Head(input).data, templates.ipfix)
     /\ IPFIXDataRecord(DictVal(templates.ipfix, Head(input).data.sets[1].id).fields) = "")
        => LET s == Head(input).data.sets[1]
               w == Width(templates.ipfix, s.id)
           IN  IF (s.length - IPFIXSetHeaderSize) % w = 0 \/ s.pad0
               THEN /\ Attempt.status = "ok"
                    /\ Len(Attempt.flows) = (s.length - IPFIXSetHeaderSize) \div w
               ELSE /\ Attempt.status = "error"
                    /\ Attempt.err = "PaddingCalculationError"

(***************************************************************************)
(* C27.  An IPFIX set whose id is 0, 1 or in 4..255 makes the decode fail  *)
(* with IPFIXRFCError; the message emits no flow and is not deferred.      *)
(***************************************************************************)
Forbidden(data) ==
    {i \in 1..Len(data.sets) : data.sets[i].id \in {0, 1} \/ data.sets[i].id \in 4..255}

IPFIXAtDecoder ==
    AtDecoder /\ Head(input).data.version = 10 /\ Head(input).data.enc = "bin"

C27_ForbiddenSetId ==
    [][(run_packet /\ IPFIXAtDecoder /\ Forbidden(Head(input).data) # {}) =>
          /\ Attempt.err = "IPFIXRFCError"
          /\ output' = output
          /\ to_retry' = to_retry]_vars

(* the message cut before its set i *)
Before(data, i) ==
    [data EXCEPT !.sets = SubSeq(data.sets, 1, i - 1),
                 !.total = IPFIXOffset(data.sets, i)]

(* the walk reaches set i: the sets before it decode, and the length field *)
(* of the header does not end the walk before it                           *)
Reaches(data, i, store, n) ==
    /\ IPFIXOffset(data.sets, i) < data.total
    /\ IPFIXExportPacket(Before(data, i), store, n).status = "ok"

(* what the decoder does keep: the failure is IPFIXRFCError when the walk  *)
(* reaches the set, that is when the sets before it decode; a message that *)
(* fails before it fails with the error of the earlier set                 *)
ForbiddenSetIdReached ==
    [][(/\ run_packet /\ IPFIXAtDecoder
        /\ \E i \in Forbidden(Head(input).data) :
              Reaches(Head(input).data, i, templates.ipfix, Head(input).n)) =>
          /\ Attempt.err = "IPFIXRFCError"
          /\ output' = output
          /\ to_retry' = to_retry]_vars



(***************************************************************************)
(* C28.  A v9 data flowset of declared length L whose template has records *)
(* of w octets decodes to exactly (L - 4) div w records, for every w >= 1  *)
(* and every L, and no record is read from behind offset L: a packet of    *)
(* such flowsets decodes, to the sum of these counts.                      *)
(***************************************************************************)
V9AtDecoder ==
    AtDecoder /\ Head(input).data.version = 9 /\ Head(input).data.enc = "bin"

(* every flowset of the packet is a data flowset whose template the store  *)
(* holds                                                                   *)
OnlyKnownData(data, store) ==
    /\ data.sets # <<>>
    /\ \A i \in 1..Len(data.sets) :
          /\ data.sets[i].id >= 256
          /\ DictHas(store, data.sets[i].id)
          /\ DictVal(store, data.sets[i].id).kind = "tmpl"
          /\ SumLen(DictVal(store, data.sets[i].id).fields) >= 1
          /\ data.sets[i].length >= 4

RECURSIVE RecordsByLength(_, _, _)
RecordsByLength(sets, store, i) ==
    IF i > Len(sets) THEN 0
    ELSE ((sets[i].length - 4) \div SumLen(DictVal(store, sets[i].id).fields))
            + RecordsByLength(sets, store, i + 1)

C28_V9DataFlowSetRecords ==
    (V9AtDecoder /\ OnlyKnownData(Head(input).data, templates.netflow)) =>
        /\ Attempt.status = "ok"
        /\ Len(Attempt.flows) = RecordsByLength(Head(input).data.sets, templates.netflow, 1)

(***************************************************************************)
(* C29.  A v9 flowset whose id is in 2..255 is skipped as opaque: the      *)
(* other flowsets of the packet are decoded as if it were not there, and   *)
(* the packet is emitted, not deferred and not rejected.                   *)
(***************************************************************************)
IsReserved(s) == s.id \in 2..255

NotReserved(s) == ~IsReserved(s)

WithoutReserved(data) == [data EXCEPT !.sets = SelectSeq(data.sets, NotReserved)]

C29_ReservedSkipped ==
    [][(/\ run_packet /\ V9AtDecoder
        /\ \E i \in 1..Len(Head(input).data.sets) : IsReserved(Head(input).data.sets[i])
        /\ parse_packet(WithoutReserved(Head(input).data), templates, Head(input).n).status = "ok")
          => /\ Attempt.status = "ok"
             /\ Attempt.flows =
                   parse_packet(WithoutReserved(Head(input).data), templates, Head(input).n).flows
             /\ Len(output') = Len(output) + 1
             /\ to_retry' = <<>>]_vars

(***************************************************************************)
(* C30.  A v1 or v5 datagram of header and count records of 48 octets      *)
(* decodes to count flows and is emitted as one packet of version 1 or 5.  *)
(***************************************************************************)
C30_FixedLayout ==
    [][(/\ run_packet /\ AtDecoder
        /\ Head(input).data.enc = "bin"
        /\ Head(input).data.version \in {1, 5}
        /\ Head(input).data.body = Head(input).data.count * FlowLength)
          => /\ Attempt.status = "ok"
             /\ Len(Attempt.flows) = Head(input).data.count
             /\ Len(output') = Len(output) + 1
             /\ output'[Len(output')].export.version = Head(input).data.version]_vars

(***************************************************************************)
(* C31.  A v1 or v5 datagram whose length is not that of the header and    *)
(* count records of 48 octets, shorter or longer, is rejected: its decode  *)
(* fails and no flow of it is emitted.                                     *)
(***************************************************************************)
C31_LengthMismatchRejected ==
    [][(/\ run_packet /\ AtDecoder
        /\ Head(input).data.enc = "bin"
        /\ Head(input).data.version \in {1, 5}
        /\ Head(input).data.body # Head(input).data.count * FlowLength)
          => /\ Attempt.status = "error"
             /\ output' = output]_vars

(***************************************************************************)
(* C32.  The ingress queue is bounded: a fixed capacity, which a burst of  *)
(* datagrams can exceed, limits the number of queued datagrams, also when  *)
(* the loop puts replayed packets back.  Of the MaxPackets datagrams of a  *)
(* run, the queue then never holds all at once.                            *)
(***************************************************************************)
C32_IngressBounded == Len(input) < MaxPackets

(***************************************************************************)
(* C33.  A pending packet all of whose templates are in the store is       *)
(* replayed and emitted, whichever packet registered the templates.  When  *)
(* the traffic of the run has ended and the loop has emptied its queue,    *)
(* nothing can replay a packet any more: no packet that decodes against    *)
(* the store is then left in the pending buffer.                           *)
(***************************************************************************)
(* every datagram of the run has been received and taken from the queue,   *)
(* the loop waits for the next                                             *)
Quiescent ==
    /\ Len(received) = MaxPackets
    /\ handlers = {}
    /\ input = <<>>
    /\ thread \in {"loop", "get"}
    /\ ~shutdown

Decodable(p) == parse_packet(p.data, templates, p.n).status = "ok"

C33_PendingReplayed ==
    Quiescent => \A i \in 1..Len(to_retry) : ~Decodable(to_retry[i])



(***************************************************************************)
(* C34.  A decode attempt that returns no parsed packet leaves the         *)
(* template store as it was before the attempt: the templates of a         *)
(* deferred or rejected packet are not registered.                         *)
(***************************************************************************)
C34_FailedDecodeKeepsStore ==
    [][(run_packet /\ AtDecoder /\ Attempt.status # "ok") => templates' = templates]_vars

(***************************************************************************)
(* C35.  Decoding one datagram against any store terminates, with a parsed *)
(* packet or an error: the decoder is never inside a loop that does not    *)
(* end, also not for an IPFIX set of declared length 0 or a v9 data        *)
(* flowset whose template has no fields.                                   *)
(***************************************************************************)
C35_DecodeTerminates == thread # "hung"

(***************************************************************************)
(* C36.  Packet conservation: every received datagram is in exactly one of *)
(* the ingress queue, the decoder, the pending buffer, the output, or the  *)
(* logged drops; none is queued and pending at once, none is emitted more  *)
(* than once.                                                              *)
(***************************************************************************)
Count(seq, n) == Cardinality({i \in 1..Len(seq) : seq[i].n = n})

Drops(n) ==
    Cardinality({k \in 1..Len(log) : log[k].n = n /\ log[k].event \in {"dropped", "ignored"}})

(* the number of places that hold packet n, the decoder apart *)
Places(n) == Count(input, n) + Count(to_retry, n) + Count(output, n) + Drops(n)

(* the datagrams the handlers have put in the queue so far *)
Enqueued == {n \in 1..Len(received) : received[n] \notin handlers}

(* the decoder holds a packet only while the thread is inside parse_packet *)
InDecoder == IF thread = "hung" THEN 1 ELSE 0

C36_Conservation ==
    /\ \A n \in Enqueued : Places(n) <= 1
    /\ Cardinality({n \in Enqueued : Places(n) = 0}) = InDecoder



(***************************************************************************)
(* C37.  Replay reaches quiescence: when no more datagrams arrive, the     *)
(* loop empties the ingress queue and the queue stays empty.  The loop     *)
(* then never comes to a stop while datagrams are in the queue: a queue    *)
(* that nothing reads any more can never become empty.                     *)
(***************************************************************************)
C37_QueueEmptied == thread \in {"dead", "hung"} => input = <<>>

(* the part of the claim the loop does keep: the pending packets go back   *)
(* to the queue only in a step that emits a packet                         *)
DrainOnlyWithOutput ==
    [][(to_retry # <<>> /\ to_retry' = <<>>) => Len(output') = Len(output) + 1]_vars

(***************************************************************************)
(* C38.  An IPFIX integer or float field whose declared length is not 1,   *)
(* 2, 4 or 8 octets is decoded as the big-endian integer of that length:   *)
(* a data set whose template has such a field decodes to its records as    *)
(* any other.                                                              *)
(***************************************************************************)
C38_OddWidthDecoded ==
    (/\ AtDecoder /\ OneDataSet(Head(input).data, templates.ipfix)
     /\ \E i \in 1..Len(DictVal(templates.ipfix, Head(input).data.sets[1].id).fields) :
           LET f == DictVal(templates.ipfix, Head(input).data.sets[1].id).fields[i]
           IN  f[1] \notin IPFIXBytesFields /\ f[2] \notin {1, 2, 4, 8}
     /\ (Head(input).data.sets[1].length - IPFIXSetHeaderSize)
            % Width(templates.ipfix, Head(input).data.sets[1].id) = 0)
        => /\ Attempt.status = "ok"
           /\ Len(Attempt.flows) =
                 (Head(input).data.sets[1].length - IPFIXSetHeaderSize)
                     \div Width(templates.ipfix, Head(input).data.sets[1].id)

(***************************************************************************)
(* C39.  A v9 template with field types the registry does not know is      *)
(* accepted, and every record decoded with a template of k fields carries  *)
(* k values, one for each field of the template, also when two or more of  *)
(* the fields have unknown types.                                          *)
(***************************************************************************)
C39_OneValuePerField ==
    \A i \in 1..Len(output) :
        output[i].export.version = 9 =>
            \A k \in 1..Len(output[i].export.flows) :
                Cardinality(output[i].export.flows[k].data)
                    = Len(output[i].export.flows[k].tmpl.fields)

====
